---- MODULE Spec2Model ----
(***************************************************************************)
(* Model of grid_gen.py: the pattern generators, the panel compositor, the *)
(* page assembler and the output stage of main().                          *)
(*                                                                         *)
(* Lengths are exact integers.  A physical length (the *_mm values of the  *)
(* source) counts thousandths of a millimetre; a document length (SVG user *)
(* units, points) counts 1/12700 of a point.  In these units the source's  *)
(* conversion val / (25.4 / 72) is exactly val * 36, and 0.01 point is     *)
(* exactly 127.  The irrational constants of draw_hex and draw_iso         *)
(* (sqrt 3, sin 60, tan 60) are the rational 265/153, a convergent of      *)
(* sqrt 3; every other quantity is exact, where the source rounds to the   *)
(* nearest double.                                                         *)
(***************************************************************************)
EXTENDS Integers, Sequences, FiniteSets, TLC

VARIABLES
    pc,         \* position of main(): "start", "normalized", "paged", ...
    argv,       \* the command line as given
    args,       \* the argparse namespace
    env,        \* what the machine offers: libraries, directories, modules
    page,       \* the svg.SVG make_page returned ("none" before)
    calls,      \* the argument tuples make_page handed to make_panel
    stdout,     \* the lines printed so far
    files,      \* the output files written so far
    exitCode,   \* <<>> while running, then <<status>>
    probed,     \* whether _ensure_cairo_lib has been entered
    dyld,       \* os.environ["DYLD_LIBRARY_PATH"] ("" when unset)
    lp          \* the generator loops, one iteration per step (LoopSpec)

vars == <<pc, argv, args, env, page, calls, stdout, files, exitCode, probed, dyld, lp>>

----------------------------------------------------------------------------
(* Units and constants                                                     *)

PAGE_W_MM == 215900
PAGE_H_MM == 279400

\* 0.01 user unit, the tolerance of the generator loops' exit tests
EPS == 127

\* sqrt(3) ~ SQRT3_NUM / SQRT3_DEN
SQRT3_NUM == 265
SQRT3_DEN == 153

\* A mutation of mm: millimetres taken as points at 96 per inch.
mm_96dpi(val) == val * 48

\* val / MM_PER_PT with MM_PER_PT = 25.4 / 72
mm(val) == val * 36

----------------------------------------------------------------------------
(* svg element constructors                                                *)

Line(x1, y1, x2, y2, stroke, stroke_width) ==
    [kind |-> "Line", x1 |-> x1, y1 |-> y1, x2 |-> x2, y2 |-> y2,
     stroke |-> stroke, stroke_width |-> stroke_width, dash |-> "none"]

DashedLine(x1, y1, x2, y2, stroke, stroke_width, dash) ==
    [kind |-> "Line", x1 |-> x1, y1 |-> y1, x2 |-> x2, y2 |-> y2,
     stroke |-> stroke, stroke_width |-> stroke_width, dash |-> dash]

Circle(cx, cy, r, fill) ==
    [kind |-> "Circle", cx |-> cx, cy |-> cy, r |-> r, fill |-> fill]

M(x, y) == [cmd |-> "M", x |-> x, y |-> y]
L(x, y) == [cmd |-> "L", x |-> x, y |-> y]
Z == [cmd |-> "Z", x |-> 0, y |-> 0]

Path(d, stroke, stroke_width, fill) ==
    [kind |-> "Path", d |-> d, stroke |-> stroke,
     stroke_width |-> stroke_width, fill |-> fill]

Rect(x, y, width, height, fill) ==
    [kind |-> "Rect", x |-> x, y |-> y, width |-> width, height |-> height,
     fill |-> fill]

----------------------------------------------------------------------------
(* draw_grid                                                               *)

RECURSIVE VLines(_, _, _, _, _, _)
VLines(x, pw, ph, step, sw, color) ==
    IF x <= pw + EPS
    THEN <<Line(x, 0, x, ph, color, sw)>> \o VLines(x + step, pw, ph, step, sw, color)
    ELSE <<>>

\* A mutation of HLines: the loop runs a whole step past the edge.
RECURSIVE HLinesOverrun(_, _, _, _, _, _)
HLinesOverrun(y, pw, ph, step, sw, color) ==
    IF y <= ph + step
    THEN <<Line(0, y, pw, y, color, sw)>> \o HLinesOverrun(y + step, pw, ph, step, sw, color)
    ELSE <<>>

RECURSIVE HLines(_, _, _, _, _, _)
HLines(y, pw, ph, step, sw, color) ==
    IF y <= ph + EPS
    THEN <<Line(0, y, pw, y, color, sw)>> \o HLines(y + step, pw, ph, step, sw, color)
    ELSE <<>>

\* A mutation of draw_grid: the first line of each family one step in.
draw_grid_inset(w, h, size, line_width, color) ==
    LET step == mm(size)
        sw == mm(line_width)
        pw == mm(w)
        ph == mm(h)
    IN  VLines(step, pw, ph, step, sw, color) \o HLines(step, pw, ph, step, sw, color)

draw_grid(w, h, size, line_width, color) ==
    LET step == mm(size)
        sw == mm(line_width)
        pw == mm(w)
        ph == mm(h)
    IN  VLines(0, pw, ph, step, sw, color) \o HLines(0, pw, ph, step, sw, color)

----------------------------------------------------------------------------
(* draw_dots                                                               *)

RECURSIVE DotColumn(_, _, _, _, _, _)
DotColumn(x, y, ph, step, r, color) ==
    IF y <= ph + EPS
    THEN <<Circle(x, y, r, color)>> \o DotColumn(x, y + step, ph, step, r, color)
    ELSE <<>>

RECURSIVE DotColumns(_, _, _, _, _, _)
DotColumns(x, pw, ph, step, r, color) ==
    IF x <= pw + EPS
    THEN DotColumn(x, 0, ph, step, r, color)
             \o DotColumns(x + step, pw, ph, step, r, color)
    ELSE <<>>

draw_dots(w, h, size, line_width, color) ==
    LET step == mm(size)
        r == mm(line_width) \div 2
        pw == mm(w)
        ph == mm(h)
    IN  DotColumns(0, pw, ph, step, r, color)

----------------------------------------------------------------------------
(* draw_lined                                                              *)

draw_lined(w, h, size, line_width, color) ==
    LET step == mm(size)
        sw == mm(line_width)
        pw == mm(w)
        ph == mm(h)
    IN  HLines(step, pw, ph, step, sw, color)

----------------------------------------------------------------------------
(* draw_hex                                                                *)

\* s * cos(60 i degrees) and s * sin(60 i degrees), i = 0 .. 5
HalfOf(s) == s \div 2
Sin60Of(s) == (s * SQRT3_NUM) \div (2 * SQRT3_DEN)
CosTimes(s, i) ==
    CASE i = 0 -> s
      [] i = 1 -> HalfOf(s)
      [] i = 2 -> -HalfOf(s)
      [] i = 3 -> -s
      [] i = 4 -> -HalfOf(s)
      [] OTHER -> HalfOf(s)
SinTimes(s, i) ==
    CASE i = 0 -> 0
      [] i = 1 -> Sin60Of(s)
      [] i = 2 -> Sin60Of(s)
      [] i = 3 -> 0
      [] i = 4 -> -Sin60Of(s)
      [] OTHER -> -Sin60Of(s)

HexPts(cx, cy, s) ==
    [i \in 1..6 |-> <<cx + CosTimes(s, i - 1), cy + SinTimes(s, i - 1)>>]

\* A mutation of HexCommands: the outline returns to its first vertex with a
\* sixth line-to before closing.
HexCommandsSixLines(cx, cy, s) ==
    LET pts == HexPts(cx, cy, s)
    IN  <<M(pts[1][1], pts[1][2])>>
            \o [i \in 1..5 |-> L(pts[i + 1][1], pts[i + 1][2])]
            \o <<L(pts[1][1], pts[1][2]), Z>>

\* The commands one hexagon appends to path_data
HexCommands(cx, cy, s) ==
    LET pts == HexPts(cx, cy, s)
    IN  <<M(pts[1][1], pts[1][2])>>
            \o [i \in 1..5 |-> L(pts[i + 1][1], pts[i + 1][2])]
            \o <<Z>>

RECURSIVE HexColumn(_, _, _, _, _)
HexColumn(cx, cy, ph, s, hex_h) ==
    IF cy - hex_h \div 2 <= ph
    THEN HexCommands(cx, cy, s) \o HexColumn(cx, cy + hex_h, ph, s, hex_h)
    ELSE <<>>

RECURSIVE HexColumns(_, _, _, _, _, _)
HexColumns(col, cx, pw, ph, s, hex_h) ==
    IF cx - s <= pw
    THEN LET row_offset == IF col % 2 = 1 THEN hex_h \div 2 ELSE 0
             col_step == (s * 2 * 3) \div 4
         IN  HexColumn(cx, row_offset, ph, s, hex_h)
                 \o HexColumns(col + 1, cx + col_step, pw, ph, s, hex_h)
    ELSE <<>>

draw_hex(w, h, size, line_width, color) ==
    LET s == mm(size)
        sw == mm(line_width)
        pw == mm(w)
        ph == mm(h)
        hex_h == (s * SQRT3_NUM) \div SQRT3_DEN
    IN  <<Path(HexColumns(0, 0, pw, ph, s, hex_h), color, sw, "none")>>

----------------------------------------------------------------------------
(* draw_iso                                                                *)

RECURSIVE Rising(_, _, _, _, _, _, _)
Rising(x, pw, ph, run, dx, sw, color) ==
    IF x <= pw
    THEN <<Line(x, ph, x + run, 0, color, sw)>>
             \o Rising(x + dx, pw, ph, run, dx, sw, color)
    ELSE <<>>

RECURSIVE Falling(_, _, _, _, _, _, _)
Falling(x, pw, ph, run, dx, sw, color) ==
    IF x <= pw
    THEN <<Line(x, 0, x + run, ph, color, sw)>>
             \o Falling(x + dx, pw, ph, run, dx, sw, color)
    ELSE <<>>

\* ph / tan(60 degrees), rounded toward zero on both signs
OverTan60(ph) ==
    IF ph >= 0 THEN (ph * SQRT3_DEN) \div SQRT3_NUM
               ELSE -(((-ph) * SQRT3_DEN) \div SQRT3_NUM)

draw_iso(w, h, size, line_width, color) ==
    LET sw == mm(line_width)
        pw == mm(w)
        ph == mm(h)
        spacing == mm(size)
        dx == (spacing * 2 * SQRT3_DEN) \div SQRT3_NUM
        run == OverTan60(ph)
        start == -run
    IN  HLines(0, pw, ph, spacing, sw, color)
            \o Rising(start, pw, ph, run, dx, sw, color)
            \o Falling(start, pw, ph, run, dx, sw, color)

----------------------------------------------------------------------------
(* DRAW_FNS                                                                *)

PatternTypes == {"grid", "dots", "hex", "lined", "iso"}

DRAW_FNS(type, w, h, size, line_width, color) ==
    CASE type = "grid" -> draw_grid(w, h, size, line_width, color)
      [] type = "dots" -> draw_dots(w, h, size, line_width, color)
      [] type = "hex" -> draw_hex(w, h, size, line_width, color)
      [] type = "lined" -> draw_lined(w, h, size, line_width, color)
      [] type = "iso" -> draw_iso(w, h, size, line_width, color)

----------------------------------------------------------------------------
(* make_panel                                                              *)

Str_white == <<"w", "h", "i", "t", "e">>
Str_999999 == <<"#", "9", "9", "9", "9", "9", "9">>

ClipPath(id, elements) == [kind |-> "ClipPath", id |-> id, elements |-> elements]
Defs(elements) == [kind |-> "Defs", elements |-> elements]
Translate(x, y) == [op |-> "Translate", x |-> x, y |-> y]
ClippedG(clip_id, elements) ==
    [kind |-> "G", clip_path |-> <<"url", clip_id>>, elements |-> elements]
PlacedG(transform, elements) ==
    [kind |-> "G", transform |-> transform, elements |-> elements]

\* A mutation of make_panel: the clip rectangle has the panel's size, not the
\* inner area's.
make_panel_wide_clip(draw_fn, panel_w_mm, panel_h_mm, offset_x, offset_y, margin_mm, size, line_width, color, clip_id) ==
    LET inner_w == panel_w_mm - 2 * margin_mm
        inner_h == panel_h_mm - 2 * margin_mm
        margin_pt == mm(margin_mm)
        pattern_elements == DRAW_FNS(draw_fn, inner_w, inner_h, size, line_width, color)
        clip == ClipPath(clip_id,
                    <<Rect(0, 0, mm(panel_w_mm), mm(panel_h_mm), "unset")>>)
        group == PlacedG(<<Translate(offset_x + margin_pt, offset_y + margin_pt)>>,
                    <<Defs(<<clip>>), ClippedG(clip_id, pattern_elements)>>)
    IN  <<group>>

make_panel(draw_fn, panel_w_mm, panel_h_mm, offset_x, offset_y, margin_mm, size, line_width, color, clip_id) ==
    LET inner_w == panel_w_mm - 2 * margin_mm
        inner_h == panel_h_mm - 2 * margin_mm
        margin_pt == mm(margin_mm)
        pattern_elements == DRAW_FNS(draw_fn, inner_w, inner_h, size, line_width, color)
        clip == ClipPath(clip_id,
                    <<Rect(0, 0, mm(inner_w), mm(inner_h), "unset")>>)
        group == PlacedG(<<Translate(offset_x + margin_pt, offset_y + margin_pt)>>,
                    <<Defs(<<clip>>), ClippedG(clip_id, pattern_elements)>>)
    IN  <<group>>

----------------------------------------------------------------------------
(* make_page                                                               *)

PageSizeMm(a) ==
    IF a.orientation = "landscape"
    THEN <<PAGE_H_MM, PAGE_W_MM>>
    ELSE <<PAGE_W_MM, PAGE_H_MM>>

PanelCall(w, h, ox, oy, i) ==
    [panel_w_mm |-> w, panel_h_mm |-> h, offset_x |-> ox, offset_y |-> oy,
     clip_id |-> <<"clip", i>>]

QuarterCells == <<<<0, 0>>, <<1, 0>>, <<0, 1>>, <<1, 1>>>>

\* A mutation of PanelCalls: the half layout's panels keep the page width.
PanelCallsWideHalf(a) ==
    LET page_w_mm == PageSizeMm(a)[1]
        page_h_mm == PageSizeMm(a)[2]
        half_w == page_w_mm \div 2
        half_h == page_h_mm \div 2
    IN  CASE a.layout = "full" ->
                <<PanelCall(page_w_mm, page_h_mm, 0, 0, 0)>>
          [] a.layout = "half" ->
                [i \in 1..2 |->
                    PanelCall(page_w_mm, page_h_mm, mm(half_w) * (i - 1), 0, i - 1)]
          [] a.layout = "quarter" ->
                [i \in 1..4 |->
                    PanelCall(half_w, half_h,
                              mm(half_w) * QuarterCells[i][1],
                              mm(half_h) * QuarterCells[i][2], i - 1)]

\* The make_panel calls of make_page, in call order
PanelCalls(a) ==
    LET page_w_mm == PageSizeMm(a)[1]
        page_h_mm == PageSizeMm(a)[2]
        half_w == page_w_mm \div 2
        half_h == page_h_mm \div 2
    IN  CASE a.layout = "full" ->
                <<PanelCall(page_w_mm, page_h_mm, 0, 0, 0)>>
          [] a.layout = "half" ->
                [i \in 1..2 |->
                    PanelCall(half_w, page_h_mm, mm(half_w) * (i - 1), 0, i - 1)]
          [] a.layout = "quarter" ->
                [i \in 1..4 |->
                    PanelCall(half_w, half_h,
                              mm(half_w) * QuarterCells[i][1],
                              mm(half_h) * QuarterCells[i][2], i - 1)]

\* A mutation of FoldLines: the quarter layout's two fold lines drawn.
FoldLinesQuarterDrawn(a) ==
    LET page_w == mm(PageSizeMm(a)[1])
        page_h == mm(PageSizeMm(a)[2])
        fold_width == mm(200)
        fold_dash == <<mm(2000), mm(2000)>>
    IN  CASE a.layout = "half" ->
                <<DashedLine(page_w \div 2, 0, page_w \div 2, page_h,
                             Str_999999, fold_width, fold_dash)>>
          [] a.layout = "quarter" ->
                <<DashedLine(page_w \div 2, 0, page_w \div 2, page_h,
                             Str_999999, fold_width, fold_dash),
                  DashedLine(0, page_h \div 2, page_w, page_h \div 2,
                             Str_999999, fold_width, fold_dash)>>
          [] OTHER -> <<>>

\* fold_lines as make_page leaves it
FoldLines(a) ==
    LET page_w == mm(PageSizeMm(a)[1])
        page_h == mm(PageSizeMm(a)[2])
        fold_width == mm(200)
        fold_dash == <<mm(2000), mm(2000)>>
    IN  IF a.layout = "half"
        THEN <<DashedLine(page_w \div 2, 0, page_w \div 2, page_h,
                          Str_999999, fold_width, fold_dash)>>
        ELSE <<>>

RECURSIVE PanelGroups(_, _)
PanelGroups(a, cs) ==
    IF cs = <<>>
    THEN <<>>
    ELSE make_panel(a.type, Head(cs).panel_w_mm, Head(cs).panel_h_mm,
                    Head(cs).offset_x, Head(cs).offset_y, a.margin, a.size,
                    a.line_width, a.color, Head(cs).clip_id)
             \o PanelGroups(a, Tail(cs))

make_page(a) ==
    LET page_w == mm(PageSizeMm(a)[1])
        page_h == mm(PageSizeMm(a)[2])
        background == Rect(0, 0, page_w, page_h, Str_white)
    IN  [width |-> page_w, height |-> page_h,
         viewBox |-> <<0, 0, page_w, page_h>>,
         elements |-> <<background>> \o PanelGroups(a, PanelCalls(a)) \o FoldLines(a)]

----------------------------------------------------------------------------
(* main: colour normalisation                                              *)

HexDigits ==
    {"0", "1", "2", "3", "4", "5", "6", "7", "8", "9",
     "a", "b", "c", "d", "e", "f", "A", "B", "C", "D", "E", "F"}

startswith(c, ch) == Len(c) > 0 /\ c[1] = ch

\* A mutation of NormalizeColorValue: the length test dropped.
NormalizeColorAnyLength(c) ==
    IF /\ ~startswith(c, "#")
       /\ \A i \in 1..Len(c) : c[i] \in HexDigits
    THEN <<"#">> \o c
    ELSE c

NormalizeColorValue(c) ==
    IF /\ ~startswith(c, "#")
       /\ \A i \in 1..Len(c) : c[i] \in HexDigits
       /\ Len(c) \in {3, 6, 8}
    THEN <<"#">> \o c
    ELSE c

----------------------------------------------------------------------------
(* main: the output stage                                                  *)

rfind(p, ch) ==
    LET S == {i \in 1..Len(p) : p[i] = ch}
    IN  IF S = {} THEN 0 ELSE CHOOSE i \in S : \A j \in S : j <= i

\* os.path.splitext(p)[1]
splitext(p) ==
    LET sepIndex == rfind(p, "/")
        dotIndex == rfind(p, ".")
    IN  IF dotIndex > sepIndex /\ \E k \in (sepIndex + 1)..(dotIndex - 1) : p[k] # "."
        THEN SubSeq(p, dotIndex, Len(p))
        ELSE <<>>

lowerChar(ch) ==
    CASE ch = "P" -> "p"
      [] ch = "D" -> "d"
      [] ch = "F" -> "f"
      [] ch = "S" -> "s"
      [] ch = "V" -> "v"
      [] ch = "G" -> "g"
      [] OTHER -> ch

lower(s) == [i \in 1..Len(s) |-> lowerChar(s[i])]

\* A mutation of IsPdf: the extension compared without lower().
IsPdfCaseSensitive(a) == splitext(a.output) = <<".", "p", "d", "f">>

\* ext.lower() == ".pdf"
IsPdf(a) == lower(splitext(a.output)) = <<".", "p", "d", "f">>

----------------------------------------------------------------------------
(* _ensure_cairo_lib                                                       *)

join(a, b) == <<a, b>>

AppendNew(dirs, d) == IF \E i \in 1..Len(dirs) : dirs[i] = d THEN dirs ELSE Append(dirs, d)

lib_names == <<"libcairo.2.dylib", "libcairo.dylib", "libcairo.so.2", "libcairo.so">>

search_dirs(e) ==
    LET brewDirs == IF e.brew \in {"missing", "error"} THEN <<>> ELSE <<join(e.brew, "lib")>>
        common == AppendNew(AppendNew(brewDirs, join("/opt/homebrew", "lib")),
                            join("/usr/local", "lib"))
        conda == IF e.conda_prefix # "" THEN Append(common, join(e.conda_prefix, "lib"))
                                        ELSE common
    IN  AppendNew(AppendNew(AppendNew(conda, join("~/miniconda3", "lib")),
                            join("~/miniforge3", "lib")),
                  join("~/anaconda3", "lib"))

HasLib(e, d) == \E i \in 1..Len(lib_names) : <<d, lib_names[i]>> \in e.isfile

\* The outcome of _ensure_cairo_lib: whether it returns, and DYLD_LIBRARY_PATH after
ensure_cairo_lib(e, existing) ==
    IF e.find_library
    THEN [returns |-> TRUE, dyld |-> existing]
    ELSE LET dirs == search_dirs(e)
             hits == {i \in 1..Len(dirs) : HasLib(e, dirs[i])}
         IN  IF hits = {}
             THEN [returns |-> FALSE, dyld |-> existing]
             ELSE LET d == dirs[CHOOSE i \in hits : \A j \in hits : i <= j]
                  IN  [returns |-> TRUE,
                       dyld |-> IF \E k \in 1..Len(existing) : existing[k] = d
                                THEN existing
                                ELSE <<d>> \o existing]

----------------------------------------------------------------------------
(* Inputs                                                                  *)

MaxSizeSteps == 2
MaxMarginSteps == 2

Str_cccccc == <<"#", "c", "c", "c", "c", "c", "c">>
output_svg == <<"o", "u", "t", "p", "u", "t", ".", "s", "v", "g">>

\* The defaults of the argument parser
DefaultArgs ==
    [type |-> "grid", size |-> 5000, line_width |-> 300, color |-> Str_cccccc,
     orientation |-> "portrait", layout |-> "full", margin |-> 10000,
     output |-> output_svg]

Layouts == {"full", "half", "quarter"}
Orientations == {"portrait", "landscape"}

\* Spacings of 25 mm, 50 mm, ...
Sizes == {25000 * k : k \in 1..MaxSizeSteps}

\* No margin; 7.951 mm, which leaves a 199.998 mm wide inner area on a portrait
\* page; and margins of 10 mm, 60 mm, ... (60 mm exceeds half a half-page panel)
Margins == {0, 7951} \cup {10000 + 50000 * (k - 1) : k \in 1..MaxMarginSteps}

Colors ==
    { <<"b", "3", "b", "3", "b", "3">>, Str_cccccc, <<"r", "e", "d">>,
      <<"a", "b", "c">>, <<"F", "F", "F">>, <<"b", "e", "e", "f">>,
      <<"1", "2", "3", "4", "5", "6", "7", "8">>, <<"1", "2", "3", "4", "5", "6", "7">>,
      <<"#", "f", "f", "f">>, <<"g", "g", "g", "g", "g", "g">>, <<"f", "0", "#">>,
      <<>> }

Outputs ==
    { output_svg,
      <<"o", ".", "p", "d", "f">>, <<"o", ".", "P", "D", "F">>, <<"o", ".", "P", "d", "f">>,
      <<"o">>, <<".", "p", "d", "f">>, <<"o", ".", "p", "d", "f", ".", "s", "v", "g">>,
      <<"d", ".", "p", "d", "f", "/", "o">>, <<"d", "/", "o", ".", "p", "d", "f">> }

DefaultEnv ==
    [find_library |-> TRUE, brew |-> "missing", conda_prefix |-> "", isfile |-> {},
     cairosvg |-> "ok", dyld |-> <<>>]

Envs ==
    [find_library : BOOLEAN,
     brew : {"missing", "error", "/opt/homebrew"},
     conda_prefix : {"", "/conda"},
     isfile : { {},
                {<<join("/usr/local", "lib"), "libcairo.so.2">>},
                {<<join("/conda", "lib"), "libcairo.2.dylib">>,
                 <<join("~/anaconda3", "lib"), "libcairo.dylib">>} },
     cairosvg : {"ok", "ImportError", "OSError"},
     dyld : {<<>>, <<join("/usr/local", "lib")>>}]

GeometryArgs ==
    {[DefaultArgs EXCEPT !.type = t, !.layout = l, !.orientation = o,
                         !.size = s, !.margin = m] :
        t \in PatternTypes, l \in Layouts, o \in Orientations, s \in Sizes, m \in Margins}

ColorArgs ==
    {[DefaultArgs EXCEPT !.type = t, !.size = 50000, !.line_width = w, !.color = c] :
        t \in PatternTypes, w \in {300, 1000}, c \in Colors}

OutputArgs == {[DefaultArgs EXCEPT !.size = 50000, !.output = p] : p \in Outputs}

LoopIdle == [loop |-> "idle", panel |-> 0, x |-> 0, y |-> 0, col |-> 0, emitted |-> 0, parity |-> 0]

----------------------------------------------------------------------------
(* main                                                                    *)

Init ==
    /\ pc = "start"
    /\ \/ argv \in GeometryArgs \cup ColorArgs \cup {DefaultArgs} /\ env = DefaultEnv
       \/ argv \in OutputArgs /\ env \in Envs
    /\ args = argv
    /\ page = "none"
    /\ calls = <<>>
    /\ stdout = <<>>
    /\ files = {}
    /\ exitCode = <<>>
    /\ probed = FALSE
    /\ dyld = env.dyld
    /\ lp = LoopIdle

Msg(text, arg) == [text |-> text, arg |-> arg]

NormalizeColor ==
    /\ pc = "start"
    /\ args' = [args EXCEPT !.color = NormalizeColorValue(args.color)]
    /\ pc' = "normalized"
    /\ UNCHANGED <<argv, env, page, calls, stdout, files, exitCode, probed, dyld, lp>>

MakePage ==
    /\ pc = "normalized"
    /\ page' = make_page(args)
    /\ calls' = PanelCalls(args)
    /\ pc' = "paged"
    /\ UNCHANGED <<argv, args, env, stdout, files, exitCode, probed, dyld, lp>>

\* except OSError as e: two lines and SystemExit(1)
OSErrorExit ==
    /\ stdout' = stdout \o <<Msg("Error: cairo system library not found.", <<>>),
                             Msg("Install it with: brew install cairo", <<>>)>>
    /\ exitCode' = <<1>>
    /\ pc' = "exited"

\* except ImportError: one line and SystemExit(1)
ImportErrorExit ==
    /\ stdout' = Append(stdout,
            Msg("Error: PDF output requires cairosvg. Install it with: pip install cairosvg", <<>>))
    /\ exitCode' = <<1>>
    /\ pc' = "exited"

EnsureCairoLib ==
    /\ pc = "paged"
    /\ IsPdf(args)
    /\ probed' = TRUE
    /\ LET r == ensure_cairo_lib(env, dyld)
       IN  IF r.returns
           THEN /\ dyld' = r.dyld
                /\ pc' = "import"
                /\ UNCHANGED <<stdout, exitCode>>
           ELSE /\ OSErrorExit
                /\ UNCHANGED dyld
    /\ UNCHANGED <<argv, args, env, page, calls, files, lp>>

ImportCairosvg ==
    /\ pc = "import"
    /\ CASE env.cairosvg = "ok" -> pc' = "convert" /\ UNCHANGED <<stdout, exitCode>>
         [] env.cairosvg = "ImportError" -> ImportErrorExit
         [] env.cairosvg = "OSError" -> OSErrorExit
    /\ UNCHANGED <<argv, args, env, page, calls, files, probed, dyld, lp>>

Svg2Pdf ==
    /\ pc = "convert"
    /\ files' = files \cup {[path |-> args.output, format |-> "pdf"]}
    /\ pc' = "written"
    /\ UNCHANGED <<argv, args, env, page, calls, stdout, exitCode, probed, dyld, lp>>

WriteSvg ==
    /\ pc = "paged"
    /\ ~IsPdf(args)
    /\ files' = files \cup {[path |-> args.output, format |-> "svg"]}
    /\ pc' = "written"
    /\ UNCHANGED <<argv, args, env, page, calls, stdout, exitCode, probed, dyld, lp>>

PrintWritten ==
    /\ pc = "written"
    /\ stdout' = Append(stdout, Msg("Written to", args.output))
    /\ exitCode' = <<0>>
    /\ pc' = "exited"
    /\ UNCHANGED <<argv, args, env, page, calls, files, probed, dyld, lp>>

Next ==
    \/ NormalizeColor
    \/ MakePage
    \/ EnsureCairoLib
    \/ ImportCairosvg
    \/ Svg2Pdf
    \/ WriteSvg
    \/ PrintWritten

Spec == Init /\ [][Next]_vars

----------------------------------------------------------------------------
(* Reading the assembled page                                              *)

Paged == pc \notin {"start", "normalized"}

\* The i-th panel's composed group, and the primitives nested in its clipped group
PanelGroup(i) == page.elements[i + 1]
Pattern(i) == PanelGroup(i).elements[2].elements

InnerW(i) == calls[i].panel_w_mm - 2 * args.margin
InnerH(i) == calls[i].panel_h_mm - 2 * args.margin

----------------------------------------------------------------------------
(* C1: make_panel returns one group, translated by the page offset plus    *)
(* the margin in document units, that defines a clip rectangle at its      *)
(* local origin of exactly the inner size and nests every primitive of the *)
(* generator inside the sub-group that clip applies to; in page            *)
(* coordinates the clip is the panel's rectangle inset by the margin.      *)

C1_PanelClipped ==
    Paged =>
        \A i \in 1..Len(calls) :
            LET g == PanelGroup(i)
                c == calls[i]
                tx == c.offset_x + mm(args.margin)
                ty == c.offset_y + mm(args.margin)
                clip == g.elements[1].elements[1]
                rect == clip.elements[1]
            IN  /\ g.kind = "G"
                /\ g.transform = <<Translate(tx, ty)>>
                /\ Len(g.elements) = 2
                /\ g.elements[1].kind = "Defs"
                /\ Len(g.elements[1].elements) = 1
                /\ clip.kind = "ClipPath" /\ clip.id = c.clip_id
                /\ Len(clip.elements) = 1
                /\ rect.kind = "Rect" /\ rect.x = 0 /\ rect.y = 0
                /\ rect.width = mm(InnerW(i)) /\ rect.height = mm(InnerH(i))
                /\ g.elements[2].kind = "G"
                /\ g.elements[2].clip_path = <<"url", clip.id>>
                /\ Pattern(i) = DRAW_FNS(args.type, InnerW(i), InnerH(i), args.size,
                                         args.line_width, args.color)
                \* the clip in page coordinates is the margin-inset panel rectangle
                /\ g.transform[1].x + rect.x = c.offset_x + mm(args.margin)
                /\ g.transform[1].x + rect.x + rect.width
                       = c.offset_x + mm(c.panel_w_mm) - mm(args.margin)
                /\ g.transform[1].y + rect.y = c.offset_y + mm(args.margin)
                /\ g.transform[1].y + rect.y + rect.height
                       = c.offset_y + mm(c.panel_h_mm) - mm(args.margin)

\* A composed hexagon panel whose generator overshoots: a vertex left of the
\* clip's origin.
C1_Witness ==
    /\ Paged
    /\ args.type = "hex"
    /\ Len(Pattern(1)) = 1
    /\ \E k \in 1..Len(Pattern(1)[1].d) : Pattern(1)[1].d[k].x < 0
    /\ PanelGroup(1).elements[1].elements[1].elements[1].width > 0

----------------------------------------------------------------------------
(* C2: the page's elements are the white page-sized background rectangle,  *)
(* then one composed group per panel in layout order (1 for full, 2 for    *)
(* half left to right, 4 for quarter: top-left, top-right, bottom-left,    *)
(* bottom-right), then the fold lines: one dashed vertical line at half    *)
(* the page width over the page's height for half, none otherwise.         *)

PanelCount == CASE args.layout = "full" -> 1 [] args.layout = "half" -> 2 [] OTHER -> 4

\* The page origin of the i-th panel in layout order
ExpectedOrigin(i) ==
    CASE args.layout = "full" -> <<0, 0>>
      [] args.layout = "half" -> <<(i - 1) * (page.width \div 2), 0>>
      [] OTHER -> <<((i - 1) % 2) * (page.width \div 2),
                    ((i - 1) \div 2) * (page.height \div 2)>>

C2_ElementOrder ==
    Paged =>
        LET e == page.elements
            n == PanelCount
        IN  /\ Len(e) = 1 + n + (IF args.layout = "half" THEN 1 ELSE 0)
            /\ e[1] = Rect(0, 0, page.width, page.height, Str_white)
            /\ \A i \in 1..n :
                   /\ e[i + 1].kind = "G"
                   /\ e[i + 1].elements[1].elements[1].id = <<"clip", i - 1>>
                   /\ e[i + 1].transform[1].x = ExpectedOrigin(i)[1] + mm(args.margin)
                   /\ e[i + 1].transform[1].y = ExpectedOrigin(i)[2] + mm(args.margin)
            /\ \A i \in 2..Len(e) : e[i].kind # "Rect"
            /\ args.layout = "half" =>
                   LET f == e[n + 2]
                   IN  /\ f.kind = "Line"
                       /\ f.dash # "none"
                       /\ 2 * f.x1 = page.width /\ f.x2 = f.x1
                       /\ f.y1 = 0 /\ f.y2 = page.height
            /\ \A i \in 2..Len(e) : e[i].kind = "Line" => args.layout = "half" /\ i = n + 2

C2_Witness == Paged /\ args.layout = "half" /\ Len(page.elements) = 4

----------------------------------------------------------------------------
(* C3: the panel rectangles handed to make_panel are pairwise              *)
(* non-overlapping, lie inside the page and together cover it; landscape   *)
(* swaps the page's two dimensions; half panel i sits at                   *)
(* (i * pageWidth/2, 0) with size (pageWidth/2, pageHeight); quarter panel *)
(* (col, row) sits at (col * pageWidth/2, row * pageHeight/2) with size    *)
(* (pageWidth/2, pageHeight/2).                                            *)

RectOf(c) ==
    [x0 |-> c.offset_x, x1 |-> c.offset_x + mm(c.panel_w_mm),
     y0 |-> c.offset_y, y1 |-> c.offset_y + mm(c.panel_h_mm)]

Disjoint(a, b) == a.x1 <= b.x0 \/ b.x1 <= a.x0 \/ a.y1 <= b.y0 \/ b.y1 <= a.y0

InsidePage(a) ==
    /\ 0 <= a.x0 /\ a.x0 < a.x1 /\ a.x1 <= page.width
    /\ 0 <= a.y0 /\ a.y0 < a.y1 /\ a.y1 <= page.height

Adjacent(S, a, b) == a \in S /\ b \in S /\ a < b /\ ~\E m \in S : a < m /\ m < b

\* Every cell of the grid the rectangles' edges cut the page into is in a rectangle
CoversPage(rs) ==
    LET Xs == {0, page.width} \cup {rs[i].x0 : i \in 1..Len(rs)} \cup {rs[i].x1 : i \in 1..Len(rs)}
        Ys == {0, page.height} \cup {rs[i].y0 : i \in 1..Len(rs)} \cup {rs[i].y1 : i \in 1..Len(rs)}
    IN  \A xa \in Xs, xb \in Xs, ya \in Ys, yb \in Ys :
            Adjacent(Xs, xa, xb) /\ Adjacent(Ys, ya, yb) =>
                \E i \in 1..Len(rs) :
                    /\ rs[i].x0 <= xa /\ xb <= rs[i].x1
                    /\ rs[i].y0 <= ya /\ yb <= rs[i].y1

C3_PanelsTilePage ==
    Paged =>
        LET rs == [i \in 1..Len(calls) |-> RectOf(calls[i])]
        IN  /\ page.width = mm(IF args.orientation = "landscape" THEN PAGE_H_MM ELSE PAGE_W_MM)
            /\ page.height = mm(IF args.orientation = "landscape" THEN PAGE_W_MM ELSE PAGE_H_MM)
            /\ Len(calls) = PanelCount
            /\ \A i \in 1..Len(rs) : InsidePage(rs[i])
            /\ \A i \in 1..Len(rs), j \in 1..Len(rs) : i # j => Disjoint(rs[i], rs[j])
            /\ CoversPage(rs)
            /\ args.layout = "half" =>
                   \A i \in 1..2 :
                       /\ 2 * calls[i].offset_x = (i - 1) * page.width
                       /\ calls[i].offset_y = 0
                       /\ 2 * mm(calls[i].panel_w_mm) = page.width
                       /\ mm(calls[i].panel_h_mm) = page.height
            /\ args.layout = "quarter" =>
                   \A col \in 0..1, row \in 0..1 :
                       LET c == calls[1 + col + 2 * row]
                       IN  /\ 2 * c.offset_x = col * page.width
                           /\ 2 * c.offset_y = row * page.height
                           /\ 2 * mm(c.panel_w_mm) = page.width
                           /\ 2 * mm(c.panel_h_mm) = page.height

C3_Witness ==
    /\ Paged
    /\ args.layout = "quarter"
    /\ args.orientation = "landscape"
    /\ Len(calls) = 4
    /\ calls[4].offset_x > 0 /\ calls[4].offset_y > 0

----------------------------------------------------------------------------
(* C4: on a W x H area with spacing S > 0 the grid generator emits first   *)
(* the vertical lines, the k-th at x = k S from x = 0, one for every k     *)
(* with k S <= W + 0.01, each from y = 0 to y = H, then the horizontal     *)
(* lines, the k-th at y = k S, one for every k with k S <= H + 0.01, each  *)
(* from x = 0 to x = W.  The count of a family is floor(W/S) + 1, and one  *)
(* more only when the next multiple of S lies within 0.01 of the edge.     *)

\* The number of k >= 0 with k * step <= extent + EPS
LinesWithin(extent, step) == IF extent + EPS < 0 THEN 0 ELSE (extent + EPS) \div step + 1

C4_GridLines ==
    Paged /\ args.type = "grid" =>
        \A i \in 1..Len(calls) :
            LET pw == mm(InnerW(i))
                ph == mm(InnerH(i))
                S == mm(args.size)
                nv == LinesWithin(pw, S)
                nh == LinesWithin(ph, S)
                e == Pattern(i)
            IN  /\ Len(e) = nv + nh
                /\ \A k \in 1..nv :
                       /\ e[k].kind = "Line"
                       /\ e[k].x1 = (k - 1) * S /\ e[k].x2 = (k - 1) * S
                       /\ e[k].y1 = 0 /\ e[k].y2 = ph
                /\ \A k \in 1..nh :
                       /\ e[nv + k].kind = "Line"
                       /\ e[nv + k].y1 = (k - 1) * S /\ e[nv + k].y2 = (k - 1) * S
                       /\ e[nv + k].x1 = 0 /\ e[nv + k].x2 = pw
                /\ pw >= 0 =>
                       /\ nv >= pw \div S + 1
                       /\ (pw % S) + EPS < S => nv = pw \div S + 1
                       /\ (pw % S) + EPS >= S /\ EPS < S => nv = pw \div S + 2
                /\ ph >= 0 =>
                       /\ nh >= ph \div S + 1
                       /\ (ph % S) + EPS < S => nh = ph \div S + 1
                       /\ (ph % S) + EPS >= S /\ EPS < S => nh = ph \div S + 2

\* A grid whose last vertical line is the one the tolerance admits: the inner
\* width is 199.998 mm and the line stands at 200 mm.
C4_Witness ==
    /\ Paged
    /\ args.type = "grid"
    /\ InnerW(1) > 0 /\ InnerH(1) > 0
    /\ LinesWithin(mm(InnerW(1)), mm(args.size)) = mm(InnerW(1)) \div mm(args.size) + 2
    /\ Pattern(1)[LinesWithin(mm(InnerW(1)), mm(args.size))].x1 > mm(InnerW(1))

----------------------------------------------------------------------------
(* C6, as claimed: every path the hex generator emits has exactly 6        *)
(* line-to commands and one close, each hexagon being a path of its own.   *)

CountCmd(d, cmd) == Cardinality({k \in 1..Len(d) : d[k].cmd = cmd})

C6_AsClaimed ==
    Paged /\ args.type = "hex" =>
        \A i \in 1..Len(calls) :
            \A j \in 1..Len(Pattern(i)) :
                /\ Pattern(i)[j].kind = "Path"
                /\ CountCmd(Pattern(i)[j].d, "M") = 1
                /\ CountCmd(Pattern(i)[j].d, "L") = 6
                /\ CountCmd(Pattern(i)[j].d, "Z") = 1

(* C6, amended: the hex generator returns a single path element, stroked   *)
(* in the pattern colour with no fill, that holds every hexagon as a       *)
(* subpath; each subpath is a move-to to the first vertex, exactly 5       *)
(* line-to commands to the remaining vertices and a close, and its six     *)
(* vertices are pairwise distinct.                                         *)

C6_HexSubpaths ==
    Paged /\ args.type = "hex" =>
        \A i \in 1..Len(calls) :
            LET e == Pattern(i)
                d == e[1].d
            IN  /\ Len(e) = 1
                /\ e[1].kind = "Path"
                /\ e[1].stroke = args.color
                /\ e[1].stroke_width = mm(args.line_width)
                /\ e[1].fill = "none"
                /\ Len(d) % 7 = 0
                /\ \A h \in 0..(Len(d) \div 7 - 1) :
                       /\ d[7 * h + 1].cmd = "M"
                       /\ \A k \in 2..6 : d[7 * h + k].cmd = "L"
                       /\ d[7 * h + 7].cmd = "Z"
                       /\ \A k \in 1..6, m \in 1..6 :
                              k # m => <<d[7 * h + k].x, d[7 * h + k].y>>
                                           # <<d[7 * h + m].x, d[7 * h + m].y>>

C6_Witness ==
    /\ Paged
    /\ args.type = "hex"
    /\ Len(Pattern(1)) = 1
    /\ Len(Pattern(1)[1].d) >= 14
    /\ CountCmd(Pattern(1)[1].d, "Z") >= 2

----------------------------------------------------------------------------
(* C7, as claimed: the default page (grid, 5 mm, full, portrait) is        *)
(* 609.07 units wide and 791.53 units high, to the hundredth of a unit.    *)

\* Document lengths count 1/UnitsPerPoint of a point
UnitsPerPoint == 12700

\* v is hundredths/100 points, to the nearest hundredth of a point
IsHundredths(v, hundredths) ==
    LET off == 2 * (v - hundredths * (UnitsPerPoint \div 100))
    IN  -(UnitsPerPoint \div 100) <= off /\ off < UnitsPerPoint \div 100

IsDefaultRun ==
    /\ argv.type = "grid" /\ argv.size = 5000 /\ argv.layout = "full"
    /\ argv.orientation = "portrait"

C7_AsClaimed ==
    Paged /\ IsDefaultRun =>
        /\ IsHundredths(page.width, 60907)
        /\ IsHundredths(page.height, 79153)

(* C7, amended: that page is the conversion of 215.9 mm by 279.4 mm at 72  *)
(* units per inch, 612.00 by 792.00 units; its viewbox is (0, 0, width,    *)
(* height); it holds a background rectangle of the page's size and a       *)
(* single clipped panel group.                                             *)

C7_DefaultPage ==
    Paged /\ IsDefaultRun =>
        /\ IsHundredths(page.width, 61200)
        /\ IsHundredths(page.height, 79200)
        \* width * (25.4 / 72) = 215.9 and height * (25.4 / 72) = 279.4
        /\ 254 * page.width = 72 * (PAGE_W_MM \div 100) * UnitsPerPoint
        /\ 254 * (page.height \div 2) = 36 * (PAGE_H_MM \div 100) * UnitsPerPoint
        /\ page.viewBox = <<0, 0, page.width, page.height>>
        /\ Len(page.elements) = 2
        /\ page.elements[1].kind = "Rect"
        /\ page.elements[1].width = page.width /\ page.elements[1].height = page.height
        /\ page.elements[2].kind = "G"
        /\ page.elements[2].elements[2].clip_path
               = <<"url", page.elements[2].elements[1].elements[1].id>>

C7_Witness ==
    /\ Paged
    /\ IsDefaultRun
    /\ argv = DefaultArgs
    /\ Len(Pattern(1)) > 0

----------------------------------------------------------------------------
(* C8: when the output path has a .pdf extension (in any case) and the     *)
(* rasterization backend is unavailable (library discovery raises, or the  *)
(* import fails), main prints a diagnostic and exits with a non-zero       *)
(* status, writes no file and prints no success line; library discovery    *)
(* runs only on the .pdf path.                                             *)

\* The output paths of Outputs whose extension is .pdf in some case
PdfOutputs ==
    { <<"o", ".", "p", "d", "f">>, <<"o", ".", "P", "D", "F">>, <<"o", ".", "P", "d", "f">>,
      <<"d", "/", "o", ".", "p", "d", "f">> }

BackendUnavailable ==
    \/ ~ensure_cairo_lib(env, env.dyld).returns
    \/ env.cairosvg # "ok"

IsDiagnostic(m) ==
    m.text \in {"Error: cairo system library not found.",
                "Install it with: brew install cairo",
                "Error: PDF output requires cairosvg. Install it with: pip install cairosvg"}

C8_PdfUnavailable ==
    /\ argv.output \in PdfOutputs /\ BackendUnavailable =>
           /\ files = {}
           /\ pc \notin {"convert", "written"}
           /\ \A k \in 1..Len(stdout) : IsDiagnostic(stdout[k])
           /\ exitCode # <<0>>
           /\ pc = "exited" => exitCode = <<1>> /\ Len(stdout) >= 1
    /\ probed => argv.output \in PdfOutputs
    /\ argv.output \notin PdfOutputs /\ pc = "exited" =>
           /\ ~probed
           /\ exitCode = <<0>>
           /\ files = {[path |-> argv.output, format |-> "svg"]}
    /\ argv.output \in PdfOutputs /\ Paged /\ pc # "paged" => probed

\* Discovery found nothing and main has exited on it.
C8_Witness ==
    /\ pc = "exited"
    /\ argv.output = <<"o", ".", "P", "D", "F">>
    /\ ~ensure_cairo_lib(env, env.dyld).returns
    /\ probed
    /\ exitCode = <<1>>
    /\ Len(stdout) = 2

----------------------------------------------------------------------------
(* C9: main prefixes the colour argument with '#' exactly when it does not *)
(* start with '#', consists only of hexadecimal digits and has length 3, 6 *)
(* or 8, and passes every other colour through unmodified; the normalized  *)
(* value is the colour every generated pattern primitive carries.          *)

IsBareHex(c) ==
    /\ (Len(c) = 0 \/ c[1] # "#")
    /\ \A i \in 1..Len(c) : c[i] \in HexDigits
    /\ (Len(c) = 3 \/ Len(c) = 6 \/ Len(c) = 8)

PrimitiveColor(e) ==
    CASE e.kind = "Line" -> e.stroke
      [] e.kind = "Circle" -> e.fill
      [] e.kind = "Path" -> e.stroke

C9_ColorNormalized ==
    /\ pc = "start" => args.color = argv.color
    /\ pc # "start" =>
           /\ IsBareHex(argv.color) => args.color = <<"#">> \o argv.color
           /\ ~IsBareHex(argv.color) => args.color = argv.color
           /\ argv.color = <<"b", "3", "b", "3", "b", "3">>
                  => args.color = <<"#", "b", "3", "b", "3", "b", "3">>
           /\ argv.color = Str_cccccc => args.color = Str_cccccc
           /\ argv.color = <<"r", "e", "d">> => args.color = <<"r", "e", "d">>
    /\ Paged =>
           \A i \in 1..Len(calls) :
               \A j \in 1..Len(Pattern(i)) : PrimitiveColor(Pattern(i)[j]) = args.color

C9_Witness ==
    /\ Paged
    /\ argv.color = <<"b", "3", "b", "3", "b", "3">>
    /\ args.color = <<"#", "b", "3", "b", "3", "b", "3">>
    /\ Len(Pattern(1)) > 0
    /\ PrimitiveColor(Pattern(1)[1]) = <<"#", "b", "3", "b", "3", "b", "3">>

----------------------------------------------------------------------------
(* The panel compositor on its own: one make_panel call for a panel of     *)
(* 139.7 mm by 279.4 mm with a 10 mm margin.                               *)

PanelArgs ==
    {[DefaultArgs EXCEPT !.type = t, !.size = s, !.color = c] :
        t \in PatternTypes, s \in Sizes \cup {39901},
        c \in {Str_cccccc, <<"#", "b", "3", "b", "3", "b", "3">>}}

PanelInit ==
    /\ pc = "panel"
    /\ argv \in PanelArgs
    /\ args = argv
    /\ env = DefaultEnv
    /\ page = "none"
    /\ calls \in {<<PanelCall(139700, 279400, ox, oy, 0)>> :
                      ox \in {0, mm(139700)}, oy \in {0, mm(5000)}}
    /\ stdout = <<>>
    /\ files = {}
    /\ exitCode = <<>>
    /\ probed = FALSE
    /\ dyld = env.dyld
    /\ lp = LoopIdle

ComposePanel ==
    /\ pc = "panel"
    /\ page' = [elements |->
                   make_panel(args.type, calls[1].panel_w_mm, calls[1].panel_h_mm,
                              calls[1].offset_x, calls[1].offset_y, args.margin,
                              args.size, args.line_width, args.color, calls[1].clip_id)]
    /\ pc' = "composed"
    /\ UNCHANGED <<argv, args, env, calls, stdout, files, exitCode, probed, dyld, lp>>

PanelNext == ComposePanel

PanelSpec == PanelInit /\ [][PanelNext]_vars

\* The coordinates a primitive carries, in the generator's local frame
XCoords(e) ==
    CASE e.kind = "Line" -> {e.x1, e.x2}
      [] e.kind = "Circle" -> {e.cx}
      [] e.kind = "Path" -> {e.d[k].x : k \in {j \in 1..Len(e.d) : e.d[j].cmd # "Z"}}

YCoords(e) ==
    CASE e.kind = "Line" -> {e.y1, e.y2}
      [] e.kind = "Circle" -> {e.cy}
      [] e.kind = "Path" -> {e.d[k].y : k \in {j \in 1..Len(e.d) : e.d[j].cmd # "Z"}}

Composed == page.elements[1]
ComposedPattern == Composed.elements[2].elements

\* Panel coordinates: the local frame shifted by the group's translation less
\* the panel's page offset
PanelX(x) == x + Composed.transform[1].x - calls[1].offset_x
PanelY(y) == y + Composed.transform[1].y - calls[1].offset_y

(* C5, as claimed: for that panel and any of the five generators no        *)
(* coordinate of a primitive, in panel coordinates, falls outside          *)
(* [margin, panelSize - margin] on either axis.                            *)

C5_AsClaimed ==
    pc = "composed" =>
        \A j \in 1..Len(ComposedPattern) :
            /\ \A x \in XCoords(ComposedPattern[j]) :
                   /\ mm(args.margin) <= PanelX(x)
                   /\ PanelX(x) <= mm(calls[1].panel_w_mm) - mm(args.margin)
            /\ \A y \in YCoords(ComposedPattern[j]) :
                   /\ mm(args.margin) <= PanelY(y)
                   /\ PanelY(y) <= mm(calls[1].panel_h_mm) - mm(args.margin)

(* C5, amended: for that panel, with the grid, dots and lined generators   *)
(* every coordinate of a primitive, in panel coordinates, lies in          *)
(* [margin, panelSize - margin + 0.01 unit] on both axes; for all five     *)
(* generators the clip rectangle spans exactly [margin, panelSize -        *)
(* margin] on both axes, and it alone confines the hex and iso             *)
(* primitives, whose coordinates do leave that range.                      *)

C5_WithinClipOrTolerance ==
    pc = "composed" =>
        LET rect == Composed.elements[1].elements[1].elements[1]
        IN  /\ PanelX(rect.x) = mm(args.margin)
            /\ PanelX(rect.x + rect.width) = mm(calls[1].panel_w_mm) - mm(args.margin)
            /\ PanelY(rect.y) = mm(args.margin)
            /\ PanelY(rect.y + rect.height) = mm(calls[1].panel_h_mm) - mm(args.margin)
            /\ Composed.elements[2].clip_path = <<"url", Composed.elements[1].elements[1].id>>
            /\ args.type \in {"grid", "dots", "lined"} =>
                   \A j \in 1..Len(ComposedPattern) :
                       /\ \A x \in XCoords(ComposedPattern[j]) :
                              /\ mm(args.margin) <= PanelX(x)
                              /\ PanelX(x) <= mm(calls[1].panel_w_mm) - mm(args.margin) + EPS
                       /\ \A y \in YCoords(ComposedPattern[j]) :
                              /\ mm(args.margin) <= PanelY(y)
                              /\ PanelY(y) <= mm(calls[1].panel_h_mm) - mm(args.margin) + EPS
            /\ args.type \in {"hex", "iso"} =>
                   \E j \in 1..Len(ComposedPattern) :
                       \E x \in XCoords(ComposedPattern[j]) : PanelX(x) < mm(args.margin)

\* A composed grid panel whose last vertical line stands past the inner width,
\* within the tolerance.
C5_Witness ==
    /\ pc = "composed"
    /\ args.type = "grid"
    /\ \E j \in 1..Len(ComposedPattern) :
           /\ ComposedPattern[j].x1 > mm(calls[1].panel_w_mm - 2 * args.margin)
           /\ ComposedPattern[j].x1 <= mm(calls[1].panel_w_mm - 2 * args.margin) + EPS

----------------------------------------------------------------------------
(* The loops of make_page, one iteration per step.  lp holds the loop      *)
(* being run, the panel it runs for, the loop variables (of draw_hex's col *)
(* its parity, all that is read of it), and the number of primitives       *)
(* appended so far: counted up to MaxEmitted, and its parity.              *)

MaxEmitted == 600

LoopArgs ==
    {[DefaultArgs EXCEPT !.type = t, !.layout = l, !.orientation = o,
                         !.size = s, !.margin = m] :
        t \in PatternTypes, l \in Layouts, o \in Orientations,
        s \in {0} \cup Sizes, m \in Margins}

LoopInit ==
    /\ pc = "normalized"
    /\ argv \in LoopArgs
    /\ args = argv
    /\ env = DefaultEnv
    /\ page = "none"
    /\ calls = <<>>
    /\ stdout = <<>>
    /\ files = {}
    /\ exitCode = <<>>
    /\ probed = FALSE
    /\ dyld = env.dyld
    /\ lp = LoopIdle

LoopCall == PanelCalls(args)[lp.panel]
LoopPw == mm(LoopCall.panel_w_mm - 2 * args.margin)
LoopPh == mm(LoopCall.panel_h_mm - 2 * args.margin)
LoopStep == mm(args.size)
LoopHexH == (LoopStep * SQRT3_NUM) \div SQRT3_DEN
LoopIsoDx == (LoopStep * 2 * SQRT3_DEN) \div SQRT3_NUM

\* Entering the generator for panel p: its first loop, with the loop variable set
EnterPanel(l, p) ==
    CASE args.type = "grid" -> [l EXCEPT !.panel = p, !.loop = "grid_v", !.x = 0]
      [] args.type = "dots" -> [l EXCEPT !.panel = p, !.loop = "dots_x", !.x = 0]
      [] args.type = "lined" -> [l EXCEPT !.panel = p, !.loop = "lined", !.y = mm(args.size)]
      [] args.type = "hex" -> [l EXCEPT !.panel = p, !.loop = "hex_col", !.x = 0, !.col = 0]
      [] args.type = "iso" -> [l EXCEPT !.panel = p, !.loop = "iso_h", !.y = 0]

\* One primitive (for hex: one hexagon) appended
Emit(l) ==
    [l EXCEPT !.emitted = IF @ < MaxEmitted THEN @ + 1 ELSE @, !.parity = 1 - @]

LoopUnchanged == UNCHANGED <<argv, args, env, page, calls, stdout, files, exitCode, probed, dyld>>

LoopEnter ==
    /\ pc = "normalized"
    /\ pc' = "assembling"
    /\ lp' = EnterPanel(lp, 1)
    /\ LoopUnchanged

GridVertical ==
    /\ pc = "assembling" /\ lp.loop = "grid_v"
    /\ IF lp.x <= LoopPw + EPS
       THEN lp' = Emit([lp EXCEPT !.x = @ + LoopStep])
       ELSE lp' = [lp EXCEPT !.loop = "grid_h", !.y = 0]
    /\ UNCHANGED pc /\ LoopUnchanged

GridHorizontal ==
    /\ pc = "assembling" /\ lp.loop = "grid_h"
    /\ IF lp.y <= LoopPh + EPS
       THEN lp' = Emit([lp EXCEPT !.y = @ + LoopStep])
       ELSE lp' = [lp EXCEPT !.loop = "return"]
    /\ UNCHANGED pc /\ LoopUnchanged

DotsOuter ==
    /\ pc = "assembling" /\ lp.loop = "dots_x"
    /\ IF lp.x <= LoopPw + EPS
       THEN lp' = [lp EXCEPT !.loop = "dots_y", !.y = 0]
       ELSE lp' = [lp EXCEPT !.loop = "return"]
    /\ UNCHANGED pc /\ LoopUnchanged

DotsInner ==
    /\ pc = "assembling" /\ lp.loop = "dots_y"
    /\ IF lp.y <= LoopPh + EPS
       THEN lp' = Emit([lp EXCEPT !.y = @ + LoopStep])
       ELSE lp' = [lp EXCEPT !.loop = "dots_x", !.x = @ + LoopStep]
    /\ UNCHANGED pc /\ LoopUnchanged

LinedLoop ==
    /\ pc = "assembling" /\ lp.loop = "lined"
    /\ IF lp.y <= LoopPh + EPS
       THEN lp' = Emit([lp EXCEPT !.y = @ + LoopStep])
       ELSE lp' = [lp EXCEPT !.loop = "return"]
    /\ UNCHANGED pc /\ LoopUnchanged

HexOuter ==
    /\ pc = "assembling" /\ lp.loop = "hex_col"
    /\ IF lp.x - LoopStep <= LoopPw
       THEN lp' = [lp EXCEPT !.loop = "hex_row",
                             !.y = IF lp.col % 2 = 1 THEN LoopHexH \div 2 ELSE 0]
       ELSE lp' = [lp EXCEPT !.loop = "return"]
    /\ UNCHANGED pc /\ LoopUnchanged

HexInner ==
    /\ pc = "assembling" /\ lp.loop = "hex_row"
    /\ IF lp.y - LoopHexH \div 2 <= LoopPh
       THEN lp' = Emit([lp EXCEPT !.y = @ + LoopHexH])
       ELSE lp' = [lp EXCEPT !.loop = "hex_col", !.x = @ + (LoopStep * 2 * 3) \div 4,
                             !.col = (@ + 1) % 2]
    /\ UNCHANGED pc /\ LoopUnchanged

IsoHorizontal ==
    /\ pc = "assembling" /\ lp.loop = "iso_h"
    /\ IF lp.y <= LoopPh + EPS
       THEN lp' = Emit([lp EXCEPT !.y = @ + LoopStep])
       ELSE lp' = [lp EXCEPT !.loop = "iso_rising", !.x = -OverTan60(LoopPh)]
    /\ UNCHANGED pc /\ LoopUnchanged

IsoRising ==
    /\ pc = "assembling" /\ lp.loop = "iso_rising"
    /\ IF lp.x <= LoopPw
       THEN lp' = Emit([lp EXCEPT !.x = @ + LoopIsoDx])
       ELSE lp' = [lp EXCEPT !.loop = "iso_falling", !.x = -OverTan60(LoopPh)]
    /\ UNCHANGED pc /\ LoopUnchanged

IsoFalling ==
    /\ pc = "assembling" /\ lp.loop = "iso_falling"
    /\ IF lp.x <= LoopPw
       THEN lp' = Emit([lp EXCEPT !.x = @ + LoopIsoDx])
       ELSE lp' = [lp EXCEPT !.loop = "return"]
    /\ UNCHANGED pc /\ LoopUnchanged

\* The generator returns; make_page goes on to the next panel or returns itself
PanelReturn ==
    /\ pc = "assembling" /\ lp.loop = "return"
    /\ IF lp.panel < Len(PanelCalls(args))
       THEN lp' = EnterPanel(lp, lp.panel + 1) /\ UNCHANGED pc
       ELSE lp' = [lp EXCEPT !.loop = "idle"] /\ pc' = "paged"
    /\ LoopUnchanged

LoopNext ==
    \/ LoopEnter
    \/ GridVertical
    \/ GridHorizontal
    \/ DotsOuter
    \/ DotsInner
    \/ LinedLoop
    \/ HexOuter
    \/ HexInner
    \/ IsoHorizontal
    \/ IsoRising
    \/ IsoFalling
    \/ PanelReturn

\* main runs on one thread that never waits: a step that can be taken is taken
LoopSpec == LoopInit /\ [][LoopNext]_vars /\ WF_vars(LoopNext)

\* The primitives the generators return for the panels of a page
RECURSIVE Emitted(_, _)
Emitted(a, cs) ==
    IF cs = <<>>
    THEN 0
    ELSE LET e == DRAW_FNS(a.type, Head(cs).panel_w_mm - 2 * a.margin,
                           Head(cs).panel_h_mm - 2 * a.margin, a.size,
                           a.line_width, a.color)
         IN  (IF a.type = "hex" THEN Len(e[1].d) \div 7 ELSE Len(e))
                 + Emitted(a, Tail(cs))

\* When the stepwise loops finish they have appended what the generators return
LoopsAgreeWithGenerators ==
    pc = "paged" /\ lp.emitted < MaxEmitted => lp.emitted = Emitted(args, PanelCalls(args))

----------------------------------------------------------------------------
(* C10: for every configuration the command line accepts, every generator  *)
(* loop of make_page reaches its exit condition and page assembly          *)
(* terminates.                                                             *)

C10_AsClaimed == <>(pc = "paged")

\* With a positive spacing page assembly does terminate
PositiveSizeTerminates == (args.size > 0) => <>(pc = "paged")

====
